---- MODULE Spec2Model ----
(***************************************************************************)
(* mpx-secrets-audit: the status engine (src/lib/status.js) and the        *)
(* registry operations (src/lib/secrets.js) over the persisted config      *)
(* (src/lib/config.js).                                                    *)
(*                                                                         *)
(* Time.  An instant is an integer number of ticks; TicksPerDay ticks make *)
(* one UTC day, and tick 0 of a day is its midnight.  A calendar date      *)
(* "YYYY-MM-DD" is the index d of its UTC day: new Date("YYYY-MM-DD") is   *)
(* the instant d * TicksPerDay, and new Date().toISOString().split('T')[0] *)
(* is the day now \div TicksPerDay.  Day 0 is the day the clock starts.    *)
(*                                                                         *)
(* JavaScript values.  A number is <<"num", n>>, NaN is <<"NaN">>, null    *)
(* (and undefined) is <<"null">>; a date field is <<"date", d>>, the       *)
(* unparseable string <<"invalid">>, or null.                              *)
(***************************************************************************)
EXTENDS Integers, Sequences, FiniteSets, TLC

VARIABLES config, now, last, secret, out, files, procs

vars == <<config, now, last, secret, out, files, procs>>

-----------------------------------------------------------------------------
(* Bounds of the model *)

\* instants modelled per day: tick 0 is midnight, the others are later that day
TicksPerDay == 2
\* the clock runs over the days 0..MaxDay
MaxDay == 0
\* the small rotation policies of the status probes are 1..MaxPolicy
MaxPolicy == 4
\* the capacity specification draws record names from 1..MaxNames
MaxNames == 11

(* Program constants *)

FreeTierLimit == 10
DefaultRotationPolicy == 90

-----------------------------------------------------------------------------
(* JavaScript values *)

Null == <<"null">>
NaN == <<"NaN">>
Num(n) == <<"num", n>>
Date(d) == <<"date", d>>
BadDate == <<"invalid">>

IsNum(x) == Len(x) = 2 /\ x[1] = "num"
IsDate(x) == Len(x) = 2 /\ x[1] = "date"

\* truthiness of a value: null, undefined, '', 0 and NaN are falsy
Truthy(x) ==
  IF IsNum(x) THEN x[2] # 0
  ELSE IF IsDate(x) THEN TRUE
  ELSE x = BadDate

\* ToNumber for the relational operators: null is 0
ToNumber(x) == IF x = Null THEN Num(0) ELSE IF IsNum(x) THEN x ELSE NaN

\* a < b and a > b: false as soon as one side is NaN
JsLt(a, b) ==
  LET x == ToNumber(a)
      y == ToNumber(b)
  IN  IsNum(x) /\ IsNum(y) /\ x[2] < y[2]

JsGt(a, b) == JsLt(b, a)

\* new Date(dateString).getTime()
ParseDate(d) == IF IsDate(d) THEN Num(d[2] * TicksPerDay) ELSE NaN

\* new Date().toISOString().split('T')[0]
Today(t) == Date(t \div TicksPerDay)

\* Math.ceil((a - b) / (1000 * 60 * 60 * 24)) of two instants
CeilDays(a, b) ==
  IF IsNum(a) /\ IsNum(b)
  THEN Num(-((b[2] - a[2]) \div TicksPerDay))
  ELSE NaN

-----------------------------------------------------------------------------
(* src/lib/status.js *)

Statuses == {"healthy", "warning", "critical", "expired"}

\* calculateStatus with the rotation rules consulted before the expiry rules
calculateStatus_RotationFirst(s, t) ==
  LET expiryDate == ParseDate(s.expiresAt)
      daysUntil == CeilDays(expiryDate, Num(t))
      daysSinceRotation == CeilDays(Num(t), ParseDate(s.lastRotated))
  IN  IF Truthy(s.rotationPolicy) /\ Truthy(s.lastRotated)
         /\ JsGt(daysSinceRotation, s.rotationPolicy)
      THEN "critical"
      ELSE IF Truthy(s.expiresAt) /\ JsLt(expiryDate, Num(t)) THEN "expired"
      ELSE IF Truthy(s.expiresAt) /\ JsLt(daysUntil, Num(7)) THEN "critical"
      ELSE IF Truthy(s.expiresAt) /\ JsLt(daysUntil, Num(30)) THEN "warning"
      ELSE IF Truthy(s.rotationPolicy) /\ Truthy(s.lastRotated)
              /\ IsNum(daysSinceRotation)
              /\ 4 * daysSinceRotation[2] > 3 * s.rotationPolicy[2]
      THEN "warning"
      ELSE "healthy"

\* calculateStatus with the expiry thresholds taken inclusively (<= 7, <= 30)
calculateStatus_ExpiryInclusive(s, t) ==
  LET expiryDate == ParseDate(s.expiresAt)
      daysUntil == CeilDays(expiryDate, Num(t))
      daysSinceRotation == CeilDays(Num(t), ParseDate(s.lastRotated))
  IN  IF Truthy(s.expiresAt) /\ JsLt(expiryDate, Num(t)) THEN "expired"
      ELSE IF Truthy(s.expiresAt) /\ JsLt(daysUntil, Num(8)) THEN "critical"
      ELSE IF Truthy(s.expiresAt) /\ JsLt(daysUntil, Num(31)) THEN "warning"
      ELSE IF Truthy(s.rotationPolicy) /\ Truthy(s.lastRotated)
      THEN IF JsGt(daysSinceRotation, s.rotationPolicy) THEN "critical"
           ELSE IF IsNum(daysSinceRotation)
                   /\ 4 * daysSinceRotation[2] > 3 * s.rotationPolicy[2]
           THEN "warning"
           ELSE "healthy"
      ELSE "healthy"

\* calculateStatus with the rotation boundary taken inclusively (>= policy)
calculateStatus_RotationInclusive(s, t) ==
  LET expiryDate == ParseDate(s.expiresAt)
      daysUntil == CeilDays(expiryDate, Num(t))
      daysSinceRotation == CeilDays(Num(t), ParseDate(s.lastRotated))
  IN  IF Truthy(s.expiresAt) /\ JsLt(expiryDate, Num(t)) THEN "expired"
      ELSE IF Truthy(s.expiresAt) /\ JsLt(daysUntil, Num(7)) THEN "critical"
      ELSE IF Truthy(s.expiresAt) /\ JsLt(daysUntil, Num(30)) THEN "warning"
      ELSE IF Truthy(s.rotationPolicy) /\ Truthy(s.lastRotated)
      THEN IF IsNum(daysSinceRotation)
              /\ ~JsLt(daysSinceRotation, s.rotationPolicy)
           THEN "critical"
           ELSE IF IsNum(daysSinceRotation)
                   /\ 4 * daysSinceRotation[2] > 3 * s.rotationPolicy[2]
           THEN "warning"
           ELSE "healthy"
      ELSE "healthy"

\* calculateStatus(secret) at the instant t
calculateStatus(s, t) ==
  LET expiryDate == ParseDate(s.expiresAt)
      daysUntil == CeilDays(expiryDate, Num(t))
      daysSinceRotation == CeilDays(Num(t), ParseDate(s.lastRotated))
  IN  IF Truthy(s.expiresAt) /\ JsLt(expiryDate, Num(t)) THEN "expired"
      ELSE IF Truthy(s.expiresAt) /\ JsLt(daysUntil, Num(7)) THEN "critical"
      ELSE IF Truthy(s.expiresAt) /\ JsLt(daysUntil, Num(30)) THEN "warning"
      ELSE IF Truthy(s.rotationPolicy) /\ Truthy(s.lastRotated)
      THEN IF JsGt(daysSinceRotation, s.rotationPolicy) THEN "critical"
           \* daysSinceRotation > rotationPolicy * 0.75
           ELSE IF IsNum(daysSinceRotation)
                   /\ 4 * daysSinceRotation[2] > 3 * s.rotationPolicy[2]
           THEN "warning"
           ELSE "healthy"
      ELSE "healthy"

\* calculateAge rounding the elapsed days down instead of up
calculateAge_Floor(s, t) ==
  LET ref == IF Truthy(s.lastRotated) THEN s.lastRotated ELSE s.createdAt
  IN  IF ~Truthy(ref) THEN Null
      ELSE IF IsDate(ref) THEN Num((t - ref[2] * TicksPerDay) \div TicksPerDay)
      ELSE NaN

\* calculateAge(secret) at the instant t
calculateAge(s, t) ==
  IF Truthy(s.lastRotated) THEN CeilDays(Num(t), ParseDate(s.lastRotated))
  ELSE IF Truthy(s.createdAt) THEN CeilDays(Num(t), ParseDate(s.createdAt))
  ELSE Null

\* daysUntilExpiry rounding down instead of up
daysUntilExpiry_Floor(s, t) ==
  IF ~Truthy(s.expiresAt) THEN Null
  ELSE IF IsDate(s.expiresAt)
  THEN Num((s.expiresAt[2] * TicksPerDay - t) \div TicksPerDay)
  ELSE NaN

\* daysUntilExpiry(secret) at the instant t
daysUntilExpiry(s, t) ==
  IF ~Truthy(s.expiresAt) THEN Null
  ELSE CeilDays(ParseDate(s.expiresAt), Num(t))

\* Math.abs
Abs(x) == IF IsNum(x) THEN Num(IF x[2] < 0 THEN -x[2] ELSE x[2])
          ELSE IF x = Null THEN Num(0) ELSE NaN

\* a - b of two numbers
Minus(a, b) ==
  LET x == ToNumber(a)
      y == ToNumber(b)
  IN  IF IsNum(x) /\ IsNum(y) THEN Num(x[2] - y[2]) ELSE NaN

\* a message is <<template, n>>, n the number the template prints
Msg(template, n) == <<template, n>>

\* getStatusMessage with the rotation row of critical tried before its expiry row
getStatusMessage_RotationRowFirst(s, t) ==
  LET status == calculateStatus(s, t)
      age == calculateAge(s, t)
      daysToExpiry == daysUntilExpiry(s, t)
  IN  CASE status = "expired" -> Msg("Expired {n} days ago", Abs(daysToExpiry))
        [] status = "critical" ->
             IF Truthy(s.rotationPolicy) /\ JsGt(age, s.rotationPolicy)
             THEN Msg("Past rotation policy by {n} days",
                      Minus(age, s.rotationPolicy))
             ELSE IF daysToExpiry # Null /\ JsLt(daysToExpiry, Num(7))
             THEN IF daysToExpiry = Num(1)
                  THEN Msg("Expires in {n} day", daysToExpiry)
                  ELSE Msg("Expires in {n} days", daysToExpiry)
             ELSE Msg("Critical", Null)
        [] status = "warning" ->
             IF daysToExpiry # Null /\ JsLt(daysToExpiry, Num(30))
             THEN Msg("Expires in {n} days", daysToExpiry)
             ELSE IF Truthy(s.rotationPolicy) /\ Truthy(age)
             THEN Msg("{n} days until rotation due",
                      Minus(s.rotationPolicy, age))
             ELSE Msg("Warning", Null)
        [] status = "healthy" -> Msg("Healthy", Null)
        [] OTHER -> Msg("Unknown", Null)

\* getStatusMessage(secret) at the instant t
getStatusMessage(s, t) ==
  LET status == calculateStatus(s, t)
      age == calculateAge(s, t)
      daysToExpiry == daysUntilExpiry(s, t)
  IN  CASE status = "expired" -> Msg("Expired {n} days ago", Abs(daysToExpiry))
        [] status = "critical" ->
             IF daysToExpiry # Null /\ JsLt(daysToExpiry, Num(7))
             THEN IF daysToExpiry = Num(1)
                  THEN Msg("Expires in {n} day", daysToExpiry)
                  ELSE Msg("Expires in {n} days", daysToExpiry)
             ELSE IF Truthy(s.rotationPolicy) /\ JsGt(age, s.rotationPolicy)
             THEN Msg("Past rotation policy by {n} days",
                      Minus(age, s.rotationPolicy))
             ELSE Msg("Critical", Null)
        [] status = "warning" ->
             IF daysToExpiry # Null /\ JsLt(daysToExpiry, Num(30))
             THEN Msg("Expires in {n} days", daysToExpiry)
             ELSE IF Truthy(s.rotationPolicy) /\ Truthy(age)
             THEN Msg("{n} days until rotation due",
                      Minus(s.rotationPolicy, age))
             ELSE Msg("Warning", Null)
        [] status = "healthy" -> Msg("Healthy", Null)
        [] OTHER -> Msg("Unknown", Null)

-----------------------------------------------------------------------------
(* The status engine applied to one record: the inputs of the probes *)

\* expiry dates around the 0, 7 and 30 day thresholds of either side of today
ProbeExpiry ==
  {Null, BadDate} \cup {Date(d) : d \in (-2 .. MaxDay + 8) \cup (28 .. MaxDay + 31)}

\* rotation dates around each policy p (p and p + 1 days ago) and around 3/4 of 90
ProbeRotated ==
  {Null, BadDate}
    \cup {Date(d) : d \in (-(MaxPolicy + 2) .. MaxDay)
                          \cup (-(DefaultRotationPolicy + 6) .. -(DefaultRotationPolicy - 2))
                          \cup (-69 .. -66)}

ProbeCreated == {Null, BadDate, Date(0), Date(-95)}

ProbePolicy ==
  {Null, Num(-1)} \cup {Num(p) : p \in (1 .. MaxPolicy) \cup {DefaultRotationPolicy}}

ProbeSecrets ==
  [name : {1}, provider : {"unknown"}, createdAt : ProbeCreated,
   expiresAt : ProbeExpiry, lastRotated : ProbeRotated,
   rotationPolicy : ProbePolicy, status : {"healthy"}]

Instants == 0 .. (MaxDay + 1) * TicksPerDay - 1

NoCall == [fn |-> "none", val |-> Null]
NoOp == [op |-> "none", name |-> 0, err |-> "none", ret |-> Null]
EmptyConfig(tier) == [tier |-> tier, secrets |-> <<>>]

\* a config file: absent, holding a registry, or holding text that is no JSON
NoFile == [state |-> "absent", content |-> EmptyConfig("free")]
File(cfg) == [state |-> "ok", content |-> cfg]
Corrupt == [state |-> "corrupt", content |-> EmptyConfig("free")]

\* the local and the global config file, and _loadedConfigPath of the process
NoFiles == [local |-> NoFile, global |-> NoFile, loaded |-> "none"]

\* no process is in the middle of an operation
NoProcs == <<>>

InitStatus ==
  /\ secret \in ProbeSecrets
  /\ now \in Instants
  /\ out = NoCall
  /\ config = EmptyConfig("free")
  /\ last = NoOp
  /\ files = NoFiles
  /\ procs = NoProcs

CallCalculateStatus ==
  /\ out' = [fn |-> "calculateStatus", val |-> calculateStatus(secret, now)]
  /\ UNCHANGED <<config, now, last, secret, files, procs>>

CallCalculateAge ==
  /\ out' = [fn |-> "calculateAge", val |-> calculateAge(secret, now)]
  /\ UNCHANGED <<config, now, last, secret, files, procs>>

CallDaysUntilExpiry ==
  /\ out' = [fn |-> "daysUntilExpiry", val |-> daysUntilExpiry(secret, now)]
  /\ UNCHANGED <<config, now, last, secret, files, procs>>

CallGetStatusMessage ==
  /\ out' = [fn |-> "getStatusMessage", val |-> getStatusMessage(secret, now)]
  /\ UNCHANGED <<config, now, last, secret, files, procs>>

NextStatus ==
  \/ CallCalculateStatus
  \/ CallCalculateAge
  \/ CallDaysUntilExpiry
  \/ CallGetStatusMessage

SpecStatus == InitStatus /\ [][NextStatus]_vars

-----------------------------------------------------------------------------
(* src/lib/secrets.js over the config file of src/lib/config.js *)

Tiers == {"free", "pro"}

\* the name of a payload that supplies none (undefined or '')
NoName == 0

\* the outcome of a registry operation: the error thrown ("none": it returned),
\* the config file afterwards and the value returned
Outcome(err, cfg, ret) == [err |-> err, config |-> cfg, ret |-> ret]

\* JSON.stringify writes NaN as null, and JSON.parse reads null back
JsonValue(x) == IF x = NaN THEN Null ELSE x

\* saveConfig(config) followed by the loadConfig() of the next operation: the
\* registry as it is read back from the file
saveConfig(cfg) ==
  [cfg EXCEPT !.secrets =
     [i \in 1 .. Len(cfg.secrets) |->
        [cfg.secrets[i] EXCEPT !.createdAt = JsonValue(@),
                               !.expiresAt = JsonValue(@),
                               !.lastRotated = JsonValue(@),
                               !.rotationPolicy = JsonValue(@)]]]

\* config.secrets.some(s => s.name === name)
HasName(secrets, name) == \E i \in 1 .. Len(secrets) : secrets[i].name = name

\* config.secrets.findIndex(s => s.name === name): the first match, 0 for none
FindIndex(secrets, name) ==
  IF HasName(secrets, name)
  THEN CHOOSE i \in 1 .. Len(secrets) :
         /\ secrets[i].name = name
         /\ \A j \in 1 .. i - 1 : secrets[j].name # name
  ELSE 0

\* the date checks of addSecret: the first of createdAt, expiresAt, lastRotated
\* that is supplied and is no real YYYY-MM-DD date
InvalidDateField(data) ==
  IF Truthy(data.createdAt) /\ ~IsDate(data.createdAt) THEN "createdAt"
  ELSE IF Truthy(data.expiresAt) /\ ~IsDate(data.expiresAt) THEN "expiresAt"
  ELSE IF Truthy(data.lastRotated) /\ ~IsDate(data.lastRotated) THEN "lastRotated"
  ELSE "none"

\* the record built with lastRotated always defaulted from createdAt
NewSecret_RotatedFromCreated(data, t) ==
  [name |-> data.name,
   provider |-> IF data.provider # "" THEN data.provider ELSE "unknown",
   createdAt |-> IF Truthy(data.createdAt) THEN data.createdAt ELSE Today(t),
   expiresAt |-> IF Truthy(data.expiresAt) THEN data.expiresAt ELSE Null,
   lastRotated |-> IF Truthy(data.createdAt) THEN data.createdAt ELSE Today(t),
   rotationPolicy |-> IF Truthy(data.rotationPolicy) THEN data.rotationPolicy
                      ELSE Num(DefaultRotationPolicy),
   status |-> ""]

\* the record addSecret builds from the payload, before its status is set
NewSecret(data, t) ==
  [name |-> data.name,
   provider |-> IF data.provider # "" THEN data.provider ELSE "unknown",
   createdAt |-> IF Truthy(data.createdAt) THEN data.createdAt ELSE Today(t),
   expiresAt |-> IF Truthy(data.expiresAt) THEN data.expiresAt ELSE Null,
   lastRotated |-> IF Truthy(data.lastRotated) THEN data.lastRotated
                   ELSE IF Truthy(data.createdAt) THEN data.createdAt
                   ELSE Today(t),
   rotationPolicy |-> IF Truthy(data.rotationPolicy) THEN data.rotationPolicy
                      ELSE Num(DefaultRotationPolicy),
   status |-> ""]

\* secret.status = calculateStatus(secret)
WithStatus(s, t) == [s EXCEPT !.status = calculateStatus(s, t)]

\* addSecret with the tier limit tested with > instead of >=
addSecret_LimitOffByOne(cfg, data, t) ==
  IF cfg.tier = "free" /\ Len(cfg.secrets) > FreeTierLimit
  THEN Outcome("TierLimit", cfg, Null)
  ELSE IF HasName(cfg.secrets, data.name)
  THEN Outcome("Duplicate", cfg, Null)
  ELSE IF data.name = NoName
  THEN Outcome("NameRequired", cfg, Null)
  ELSE IF InvalidDateField(data) # "none"
  THEN Outcome("InvalidDate", cfg, Null)
  ELSE LET new == WithStatus(NewSecret(data, t), t)
       IN  Outcome("none", saveConfig([cfg EXCEPT !.secrets = Append(@, new)]), new)

\* addSecret with the dates validated before the name is looked up
addSecret_DatesFirst(cfg, data, t) ==
  IF cfg.tier = "free" /\ Len(cfg.secrets) >= FreeTierLimit
  THEN Outcome("TierLimit", cfg, Null)
  ELSE IF InvalidDateField(data) # "none"
  THEN Outcome("InvalidDate", cfg, Null)
  ELSE IF HasName(cfg.secrets, data.name)
  THEN Outcome("Duplicate", cfg, Null)
  ELSE IF data.name = NoName
  THEN Outcome("NameRequired", cfg, Null)
  ELSE LET new == WithStatus(NewSecret(data, t), t)
       IN  Outcome("none", saveConfig([cfg EXCEPT !.secrets = Append(@, new)]), new)

\* addSecret with the record pushed and saved before the dates are validated
addSecret_PushBeforeDates(cfg, data, t) ==
  IF cfg.tier = "free" /\ Len(cfg.secrets) >= FreeTierLimit
  THEN Outcome("TierLimit", cfg, Null)
  ELSE IF HasName(cfg.secrets, data.name)
  THEN Outcome("Duplicate", cfg, Null)
  ELSE IF data.name = NoName
  THEN Outcome("NameRequired", cfg, Null)
  ELSE LET new == WithStatus(NewSecret(data, t), t)
           pushed == saveConfig([cfg EXCEPT !.secrets = Append(@, new)])
       IN  IF InvalidDateField(data) # "none"
           THEN Outcome("InvalidDate", pushed, Null)
           ELSE Outcome("none", pushed, new)

\* addSecret(secretData) at the instant t
addSecret(cfg, data, t) ==
  IF cfg.tier = "free" /\ Len(cfg.secrets) >= FreeTierLimit
  THEN Outcome("TierLimit", cfg, Null)
  ELSE IF HasName(cfg.secrets, data.name)
  THEN Outcome("Duplicate", cfg, Null)
  ELSE IF data.name = NoName
  THEN Outcome("NameRequired", cfg, Null)
  ELSE IF InvalidDateField(data) # "none"
  THEN Outcome("InvalidDate", cfg, Null)
  ELSE LET new == WithStatus(NewSecret(data, t), t)
       IN  Outcome("none", saveConfig([cfg EXCEPT !.secrets = Append(@, new)]), new)

\* secrets.pop() in place of the splice: the sequence without its last element
Splice_Pop(secrets, index) == SubSeq(secrets, 1, Len(secrets) - 1)

\* secrets.splice(index, 1): the sequence without its element at index
Splice(secrets, index) ==
  [i \in 1 .. Len(secrets) - 1 |->
     IF i < index THEN secrets[i] ELSE secrets[i + 1]]

\* removeSecret(name)
removeSecret(cfg, name) ==
  LET index == FindIndex(cfg.secrets, name)
  IN  IF index = 0 THEN Outcome("NotFound", cfg, Null)
      ELSE Outcome("none",
                   saveConfig([cfg EXCEPT !.secrets = Splice(@, index)]),
                   cfg.secrets[index])

\* listSecrets returning the records with the status that is stored
listSecrets_Stored(cfg, t) == cfg.secrets

\* listSecrets() at the instant t: the status of each record recomputed on the
\* loaded copy, which is not saved
listSecrets(cfg, t) ==
  [i \in 1 .. Len(cfg.secrets) |-> WithStatus(cfg.secrets[i], t)]

\* getSecret(name) at the instant t: the first record of that name, its status
\* recomputed on the loaded copy, which is not saved
getSecret(cfg, name, t) ==
  LET index == FindIndex(cfg.secrets, name)
  IN  IF index = 0 THEN Outcome("NotFound", cfg, Null)
      ELSE Outcome("none", cfg, WithStatus(cfg.secrets[index], t))

\* rotateSecret keeping the status stored before the rotation
rotateSecret_StaleStatus(cfg, name, t) ==
  LET index == FindIndex(cfg.secrets, name)
  IN  IF index = 0 THEN Outcome("NotFound", cfg, Null)
      ELSE LET new == [cfg.secrets[index] EXCEPT !.lastRotated = Today(t)]
           IN  Outcome("none", saveConfig([cfg EXCEPT !.secrets[index] = new]), new)

\* rotateSecret(name) at the instant t
rotateSecret(cfg, name, t) ==
  LET index == FindIndex(cfg.secrets, name)
  IN  IF index = 0 THEN Outcome("NotFound", cfg, Null)
      ELSE LET new == WithStatus(
                        [cfg.secrets[index] EXCEPT !.lastRotated = Today(t)], t)
           IN  Outcome("none", saveConfig([cfg EXCEPT !.secrets[index] = new]), new)

\* Object.assign(secret, updates): updates is a record of the supplied fields
Assign(s, updates) ==
  [f \in DOMAIN s |-> IF f \in DOMAIN updates THEN updates[f] ELSE s[f]]

\* updateSecret without the status being recomputed after the merge
updateSecret_KeepStatus(cfg, name, updates, t) ==
  LET index == FindIndex(cfg.secrets, name)
  IN  IF index = 0 THEN Outcome("NotFound", cfg, Null)
      ELSE LET new == Assign(cfg.secrets[index], updates)
           IN  Outcome("none", saveConfig([cfg EXCEPT !.secrets[index] = new]), new)

\* updateSecret(name, updates) at the instant t
updateSecret(cfg, name, updates, t) ==
  LET index == FindIndex(cfg.secrets, name)
  IN  IF index = 0 THEN Outcome("NotFound", cfg, Null)
      ELSE LET new == WithStatus(Assign(cfg.secrets[index], updates), t)
           IN  Outcome("none", saveConfig([cfg EXCEPT !.secrets[index] = new]), new)

\* results[secret.status].push(secret), for each record of secrets in turn
RECURSIVE PushAll(_, _)
PushAll(results, secrets) ==
  IF secrets = <<>> THEN results
  ELSE PushAll([results EXCEPT ![Head(secrets).status] = Append(@, Head(secrets))],
               Tail(secrets))

\* checkSecrets filing each record under the status that is stored
checkSecrets_StoredStatus(cfg, t) ==
  PushAll([status \in Statuses |-> <<>>], cfg.secrets)

\* checkSecrets() at the instant t
checkSecrets(cfg, t) ==
  PushAll([status \in Statuses |-> <<>>], listSecrets(cfg, t))

\* the check command with critical records counted only under --fail-on critical
checkCommand_CriticalOnly(cfg, ci, failOn, t) ==
  LET results == checkSecrets(cfg, t)
      failLevel == IF failOn = "" THEN "warning" ELSE failOn
  IN  IF ~ci THEN 0
      ELSE IF Len(results["expired"]) > 0
              /\ failLevel \in {"expired", "critical", "warning"}
      THEN 2
      ELSE IF Len(results["critical"]) > 0 /\ failLevel = "critical"
      THEN 2
      ELSE IF Len(results["warning"]) > 0 /\ failLevel = "warning" THEN 1
      ELSE 0

\* the check command of the CLI on an existing config: its exit code, 0 when
\* the action returns without process.exit; failOn is "" without --fail-on
checkCommand(cfg, ci, failOn, t) ==
  LET results == checkSecrets(cfg, t)
      failLevel == IF failOn = "" THEN "warning" ELSE failOn
  IN  IF ~ci THEN 0
      ELSE IF Len(results["expired"]) > 0
              /\ failLevel \in {"expired", "critical", "warning"}
      THEN 2
      ELSE IF Len(results["critical"]) > 0
              /\ failLevel \in {"critical", "warning"}
      THEN 2
      ELSE IF Len(results["warning"]) > 0 /\ failLevel = "warning" THEN 1
      ELSE 0

-----------------------------------------------------------------------------
(* The registry as a state machine: config is the persisted config file, now *)
(* the clock, last the most recent operation with its error and its result   *)

Done(op, name, o) ==
  /\ config' = o.config
  /\ last' = [op |-> op, name |-> name, err |-> o.err, ret |-> o.ret]
  /\ UNCHANGED <<now, secret, out, files, procs>>

Add(data) == Done("add", data.name, addSecret(config, data, now))

Remove(name) == Done("remove", name, removeSecret(config, name))

Rotate(name) == Done("rotate", name, rotateSecret(config, name, now))

Update(name, updates) ==
  Done("update", name, updateSecret(config, name, updates, now))

Get(name) == Done("get", name, getSecret(config, name, now))

\* list() writing the recomputed statuses back to the file
List_Saving ==
  Done("list", NoName,
       Outcome("none", saveConfig([config EXCEPT !.secrets = listSecrets(config, now)]),
               listSecrets(config, now)))

List == Done("list", NoName, Outcome("none", config, listSecrets(config, now)))

Check ==
  Done("check", NoName, Outcome("none", config, checkSecrets(config, now)))

CheckCommand(ci, failOn) ==
  Done("checkCommand", NoName,
       Outcome("none", config,
               [ci |-> ci, failOn |-> failOn,
                code |-> checkCommand(config, ci, failOn, now)]))

\* time passes
Tick ==
  /\ now + 1 \in Instants
  /\ now' = now + 1
  /\ UNCHANGED <<config, last, secret, out, files, procs>>

\* the names, days and policies the operations are called with
Names == {1, 2}

\* add is called while the registry holds fewer records than this (a rename by
\* update frees a name, so that the registry could grow without end)
MaxRecords == Cardinality(Names)

\* an expiry date 30 or more days after every day of the clock
FarDay == MaxDay + 30

\* a payload that gives the name only
NameOnly(name) ==
  [name |-> name, provider |-> "", createdAt |-> Null, expiresAt |-> Null,
   lastRotated |-> Null, rotationPolicy |-> Null]

\* the payloads of add: every combination of the optional fields under the
\* first name, the name alone under the other names and under no name
AddInputs ==
  [name : {1}, provider : {""},
   createdAt : {Null, Date(0)},
   expiresAt : {Null, Date(FarDay)},
   lastRotated : {Null, Date(-95)},
   rotationPolicy : {Null, Num(1), Num(DefaultRotationPolicy)}]
  \cup {NameOnly(name) : name \in (Names \ {1}) \cup {NoName}}

UpdateInputs ==
  {[name |-> n] : n \in Names} \cup {[rotationPolicy |-> Num(2)]}

NoSecret ==
  [name |-> NoName, provider |-> "", createdAt |-> Null, expiresAt |-> Null,
   lastRotated |-> Null, rotationPolicy |-> Null, status |-> ""]

\* the registry after initConfig(): version 1.0.0, tier free, no secrets
Init ==
  /\ config = EmptyConfig("free")
  /\ now = 0
  /\ last = NoOp
  /\ secret = NoSecret
  /\ out = NoCall
  /\ files = NoFiles
  /\ procs = NoProcs

Next ==
  \/ \E data \in AddInputs : Len(config.secrets) < MaxRecords /\ Add(data)
  \/ \E name \in Names : Remove(name)
  \/ \E name \in Names : Rotate(name)
  \/ \E name \in Names, updates \in UpdateInputs : Update(name, updates)
  \/ List
  \/ Tick

Spec == Init /\ [][Next]_vars

-----------------------------------------------------------------------------
(* src/lib/config.js: the local and the global config file *)

\* getConfigPath(): the local file takes precedence
getConfigPath(fs) == IF fs.local.state # "absent" THEN "local" ELSE "global"

\* configExists()
configExists(fs) == fs.local.state # "absent" \/ fs.global.state # "absent"

\* loadConfig(): the registry read, and the path remembered
loadConfig(fs) ==
  LET configPath == getConfigPath(fs)
  IN  IF fs[configPath].state = "absent"
      THEN [err |-> "NoConfig", fs |-> fs, config |-> EmptyConfig("free")]
      ELSE IF fs[configPath].state = "corrupt"
      THEN [err |-> "LoadFailed", fs |-> fs, config |-> EmptyConfig("free")]
      ELSE [err |-> "none", fs |-> [fs EXCEPT !.loaded = configPath],
            config |-> fs[configPath].content]

\* writeFileSync either writes the file, or fails before the file is opened,
\* or fails after it was opened for writing, which has truncated it
WriteModes == {"ok", "unopened", "partial"}

\* saveConfig always writing the local file when useGlobal is not given
SavePath_Local(fs, useGlobal) ==
  IF useGlobal = "true" THEN "global" ELSE "local"

\* the file saveConfig writes: useGlobal is "true", "false" or "unset"
SavePath(fs, useGlobal) ==
  IF useGlobal = "true" THEN "global"
  ELSE IF useGlobal = "false" THEN "local"
  ELSE IF fs.loaded # "none" THEN fs.loaded
  ELSE getConfigPath(fs)

\* saveConfig keeping the records of the file that the registry written lacks
saveConfigFile_Merge(fs, cfg, useGlobal, write) ==
  LET configPath == SavePath(fs, useGlobal)
      kept == SelectSeq(fs[configPath].content.secrets,
                        LAMBDA s : ~HasName(cfg.secrets, s.name))
  IN  [err |-> "none",
       fs |-> [fs EXCEPT ![configPath] =
                 File([cfg EXCEPT !.secrets = kept \o cfg.secrets])],
       ret |-> configPath]

\* saveConfig(config, useGlobal) on the files: it returns the path it wrote
saveConfigFile(fs, cfg, useGlobal, write) ==
  LET configPath == SavePath(fs, useGlobal)
  IN  CASE write = "ok" ->
             [err |-> "none", fs |-> [fs EXCEPT ![configPath] = File(cfg)],
              ret |-> configPath]
        [] write = "unopened" ->
             [err |-> "SaveFailed", fs |-> fs, ret |-> Null]
        [] OTHER ->
             [err |-> "SaveFailed", fs |-> [fs EXCEPT ![configPath] = Corrupt],
              ret |-> Null]

\* initConfig(useGlobal)
initConfig(fs, useGlobal, write) ==
  LET configPath == IF useGlobal THEN "global" ELSE "local"
  IN  IF fs[configPath].state # "absent"
      THEN [err |-> "ConfigExists", fs |-> fs, ret |-> Null]
      ELSE saveConfigFile(fs, EmptyConfig("free"),
                          IF useGlobal THEN "true" ELSE "false", write)

\* the registry an operation of secrets.js works on: what loadConfig() returns
Loaded(fs) == loadConfig(fs).config

\* an operation of secrets.js run on the files: o is the outcome of the
\* operation on Loaded(fs), saves tells whether it calls saveConfig
OnFiles(fs, o, saves, write) ==
  LET loaded == loadConfig(fs)
  IN  IF loaded.err # "none"
      THEN [err |-> loaded.err, fs |-> fs, ret |-> Null]
      ELSE IF o.err # "none" \/ ~saves
      THEN [err |-> o.err, fs |-> loaded.fs, ret |-> o.ret]
      ELSE LET saved == saveConfigFile(loaded.fs, o.config, "unset", write)
           IN  [err |-> saved.err, fs |-> saved.fs,
                ret |-> IF saved.err = "none" THEN o.ret ELSE Null]

-----------------------------------------------------------------------------
(* The MCP server: the handler of a tool call *)

McpTools == {"init", "add_secret", "list_secrets", "check_secrets",
             "remove_secret", "rotate_secret", "get_schema"}

\* the response of the handler: the kind of its text (a JSON body or plain
\* text), the success, error and code members of the body, the result the body
\* carries, and isError
Response(fs, body, success, code, isError) ==
  [fs |-> fs, body |-> body, success |-> success, error |-> code # "",
   code |-> code, data |-> Null, isError |-> isError]

Succeeded(fs) == Response(fs, "json", TRUE, "", FALSE)
Failed(fs, code) == Response(fs, "json", FALSE, code, TRUE)

\* the envelope around the outcome of one operation: the catch clause turns an
\* error thrown into ERR_OPERATION
Wrapped(outcome) ==
  IF outcome.err = "none"
  THEN [Succeeded(outcome.fs) EXCEPT !.data = outcome.ret]
  ELSE Failed(outcome.fs, "ERR_OPERATION")

\* the handler of CallToolRequestSchema; args.given is false when the request
\* carries no arguments, and reading a member of args then throws
mcpCallTool(fs, tool, args, t, write) ==
  CASE tool = "init" ->
         IF configExists(fs) THEN Failed(fs, "ERR_CONFIG_EXISTS")
         ELSE IF ~args.given THEN Failed(fs, "ERR_OPERATION")
         ELSE Wrapped(initConfig(fs, args.global, write))
    [] tool = "add_secret" ->
         IF ~configExists(fs) THEN Failed(fs, "ERR_NO_CONFIG")
         ELSE IF ~args.given THEN Failed(fs, "ERR_OPERATION")
         ELSE Wrapped(OnFiles(fs,
                              addSecret(Loaded(fs),
                                        [NameOnly(args.name) EXCEPT
                                           !.rotationPolicy = Num(DefaultRotationPolicy)],
                                        t),
                              TRUE, write))
    [] tool = "list_secrets" ->
         IF ~configExists(fs) THEN Failed(fs, "ERR_NO_CONFIG")
         ELSE LET listed == OnFiles(fs,
                                    Outcome("none", Loaded(fs),
                                            listSecrets(Loaded(fs), t)),
                                    FALSE, write)
              IN  IF listed.err = "none" /\ ~args.given
                  THEN Failed(listed.fs, "ERR_OPERATION")
                  ELSE Wrapped(listed)
    [] tool = "check_secrets" ->
         IF ~configExists(fs) THEN Failed(fs, "ERR_NO_CONFIG")
         ELSE Wrapped(OnFiles(fs,
                              Outcome("none", Loaded(fs),
                                      checkSecrets(Loaded(fs), t)),
                              FALSE, write))
    [] tool = "remove_secret" ->
         IF ~configExists(fs) THEN Failed(fs, "ERR_NO_CONFIG")
         ELSE IF ~args.given THEN Failed(fs, "ERR_OPERATION")
         ELSE Wrapped(OnFiles(fs, removeSecret(Loaded(fs), args.name),
                              TRUE, write))
    [] tool = "rotate_secret" ->
         IF ~configExists(fs) THEN Failed(fs, "ERR_NO_CONFIG")
         ELSE IF ~args.given THEN Failed(fs, "ERR_OPERATION")
         ELSE Wrapped(OnFiles(fs, rotateSecret(Loaded(fs), args.name, t),
                              TRUE, write))
    [] tool = "get_schema" -> Response(fs, "json", FALSE, "", FALSE)
    [] OTHER -> Response(fs, "text", FALSE, "", TRUE)

-----------------------------------------------------------------------------
(* Every operation of the registry, called with valid and with invalid     *)
(* field values, on a registry of at most MaxRecords records               *)

\* the payloads of add: the name alone, an expiry date today or malformed, a
\* rotation policy that is negative, zero or NaN (parseInt of a non-number)
OpsAddInputs ==
  {NameOnly(name) : name \in Names \cup {NoName}}
    \cup {[NameOnly(1) EXCEPT !.expiresAt = e] : e \in {Date(0), BadDate}}
    \cup {[NameOnly(1) EXCEPT !.rotationPolicy = p] : p \in {Num(-1), Num(0), NaN}}

\* the fields update is called with
OpsUpdateInputs ==
  {[expiresAt |-> BadDate], [rotationPolicy |-> Num(1), status |-> "expired"]}

\* the options of check: without --ci, and with --ci and --fail-on not given,
\* one of the three levels, or another word
CheckInputs ==
  {<<FALSE, "">>}
    \cup {<<TRUE, failOn>> :
            failOn \in {"", "warning", "critical", "expired", "healthy"}}

NextOps ==
  \/ \E data \in OpsAddInputs : Len(config.secrets) < MaxRecords /\ Add(data)
  \/ \E name \in Names : Remove(name)
  \/ \E name \in Names : Get(name)
  \/ \E name \in Names : Rotate(name)
  \/ \E name \in Names, updates \in OpsUpdateInputs : Update(name, updates)
  \/ List
  \/ Check
  \/ \E options \in CheckInputs : CheckCommand(options[1], options[2])
  \/ Tick

SpecOps == Init /\ [][NextOps]_vars

-----------------------------------------------------------------------------
(* The registry filled to its capacity: records added by name alone, as the  *)
(* free tier test does, under either tier.  Names are compared for equality  *)
(* only, so that one absent name stands for all of them: the next one after  *)
(* the names present.                                                        *)

TierNames == 1 .. MaxNames

NamesPresent(cfg) == {cfg.secrets[i].name : i \in 1 .. Len(cfg.secrets)}

FreshName(cfg) ==
  IF NamesPresent(cfg) = {} THEN 1
  ELSE 1 + CHOOSE n \in NamesPresent(cfg) : \A m \in NamesPresent(cfg) : m <= n

\* the names of the oldest and of the newest stored record
EdgeNames(cfg) ==
  IF cfg.secrets = <<>> THEN {}
  ELSE {cfg.secrets[1].name, cfg.secrets[Len(cfg.secrets)].name}

\* the name of the second stored record, when others follow it
InnerNames(cfg) ==
  IF Len(cfg.secrets) < 3 THEN {} ELSE {cfg.secrets[2].name}

TierAddInputs ==
  [name : (EdgeNames(config) \cup {FreshName(config)}) \cap TierNames,
   provider : {""}, createdAt : {Null}, expiresAt : {Null, BadDate},
   lastRotated : {Null}, rotationPolicy : {Null}]

\* the config file after initConfig(), or with its tier set to pro by hand
InitTier ==
  /\ config \in {EmptyConfig(tier) : tier \in Tiers}
  /\ now = 0
  /\ last = NoOp
  /\ secret = NoSecret
  /\ out = NoCall
  /\ files = NoFiles
  /\ procs = NoProcs

NextTier ==
  \/ \E data \in TierAddInputs : Add(data)
  \/ \E name \in EdgeNames(config) \cup InnerNames(config)
                   \cup {FreshName(config)} : Remove(name)

SpecTier == InitTier /\ [][NextTier]_vars

-----------------------------------------------------------------------------
(* The operations run on the config files: the tools of the MCP server, whose *)
(* process keeps _loadedConfigPath between the calls, the init command and    *)
(* updateSecret of the library                                                *)

\* the arguments of a tool call, or a call without arguments
McpArgs ==
  {[given |-> TRUE, name |-> name, global |-> FALSE] : name \in Names}
    \cup {[given |-> TRUE, name |-> NoName, global |-> TRUE],
          [given |-> FALSE, name |-> NoName, global |-> FALSE]}

\* the tools that write a config file
WritingTools == {"init", "add_secret", "remove_secret", "rotate_secret"}

\* the registry the next operation loads holds fewer than MaxRecords records
RoomLeft ==
  Len(files[getConfigPath(files)].content.secrets) < MaxRecords

FilesDone(op, name, err, fs, ret) ==
  /\ files' = fs
  /\ last' = [op |-> op, name |-> name, err |-> err, ret |-> ret]
  /\ UNCHANGED <<config, now, secret, out, procs>>

\* mpx-secrets-audit init [--global]
InitConfig(useGlobal, write) ==
  \E o \in {initConfig(files, useGlobal, write)} :
      FilesDone("initConfig", NoName, o.err, o.fs, o.ret)

\* one request to the MCP server
CallTool(tool, args, write) ==
  \E response \in {mcpCallTool(files, tool, args, now, write)} :
      FilesDone(tool, args.name,
                IF response.isError THEN "isError" ELSE "none", response.fs,
                [body |-> response.body, success |-> response.success,
                 error |-> response.error, code |-> response.code,
                 data |-> response.data, isError |-> response.isError])

\* updateSecret(name, updates) called from the library
UpdateFile(name, updates, write) ==
  \E o \in {OnFiles(files, updateSecret(Loaded(files), name, updates, now),
                    TRUE, write)} :
      FilesDone("updateSecret", name, o.err, o.fs, o.ret)

InitFiles ==
  /\ config = EmptyConfig("free")
  /\ now = 0
  /\ last = NoOp
  /\ secret = NoSecret
  /\ out = NoCall
  /\ files = NoFiles
  /\ procs = NoProcs

NextFiles ==
  \/ \E useGlobal \in BOOLEAN, write \in WriteModes : InitConfig(useGlobal, write)
  \/ \E tool \in WritingTools, args \in McpArgs, write \in WriteModes :
       /\ tool = "add_secret" => RoomLeft
       /\ CallTool(tool, args, write)
  \/ \E tool \in (McpTools \ WritingTools) \cup {"no_such_tool"},
        args \in McpArgs :
       CallTool(tool, args, "ok")
  \/ \E name \in Names, write \in WriteModes :
       UpdateFile(name, [rotationPolicy |-> Num(2)], write)

SpecFiles == InitFiles /\ [][NextFiles]_vars

-----------------------------------------------------------------------------
(* src/lib/reporters.js and generatePDFReport: the report renderers.  A      *)
(* renderer returns the list it was given, as the call leaves it, and the    *)
(* report it has built                                                       *)

Rendered(records, report) == [records |-> records, report |-> report]

\* secrets.filter(s => s.status === status).length
CountStatus(secrets, status) ==
  Cardinality({i \in 1 .. Len(secrets) : secrets[i].status = status})

\* the summary every renderer starts from
Summary(secrets) ==
  [total |-> Len(secrets), healthy |-> CountStatus(secrets, "healthy"),
   warning |-> CountStatus(secrets, "warning"), critical |-> CountStatus(secrets, "critical"),
   expired |-> CountStatus(secrets, "expired")]

\* what a renderer prints of one record: the status it was given, and the age,
\* the days until expiry and the message the status engine computes
Entry(s, t) ==
  [name |-> s.name, status |-> s.status, age |-> calculateAge(s, t),
   daysUntilExpiry |-> daysUntilExpiry(s, t), message |-> getStatusMessage(s, t)]

Entries(secrets, t) == [i \in 1 .. Len(secrets) |-> Entry(secrets[i], t)]

\* Array.prototype.sort with a comparator that subtracts the keys, keys[i]
\* being the key of secrets[i]: stable
SortBy(secrets, keys) ==
  LET Rank(i) ==
        1 + Cardinality({j \in 1 .. Len(secrets) :
                           \/ keys[j] < keys[i]
                           \/ keys[j] = keys[i] /\ j < i})
  IN  [r \in 1 .. Len(secrets) |->
         secrets[CHOOSE i \in 1 .. Len(secrets) : Rank(i) = r]]

generateTextReport(secrets, t) ==
  Rendered(secrets,
           IF secrets = <<>>
           THEN [title |-> "No secrets tracked yet", rows |-> <<>>]
           ELSE [title |-> "Secrets Audit Report", rows |-> Entries(secrets, t),
                 summary |-> Summary(secrets)])

generateJsonReport(secrets, t) ==
  Rendered(secrets,
           [summary |-> Summary(secrets), secrets |-> Entries(secrets, t)])

\* generateMarkdownReport with the section shown for critical and expired
\* records only
generateMarkdownReport_CriticalOnly(secrets, t) ==
  Rendered(secrets,
           IF secrets = <<>>
           THEN [title |-> "No secrets tracked yet", rows |-> <<>>,
                 section |-> FALSE, actionRequired |-> <<>>]
           ELSE LET summary == Summary(secrets)
                    shown == summary.critical > 0 \/ summary.expired > 0
                IN  [title |-> "Secrets Audit Report", summary |-> summary,
                     rows |-> Entries(secrets, t),
                     section |-> shown,
                     actionRequired |->
                       IF shown
                       THEN Entries(SelectSeq(secrets,
                                              LAMBDA s : s.status # "healthy"), t)
                       ELSE <<>>])

\* generateMarkdownReport: section tells whether "## Action Required" is
\* printed, actionRequired is what is printed under it
generateMarkdownReport(secrets, t) ==
  Rendered(secrets,
           IF secrets = <<>>
           THEN [title |-> "No secrets tracked yet", rows |-> <<>>,
                 section |-> FALSE, actionRequired |-> <<>>]
           ELSE LET summary == Summary(secrets)
                    shown == \/ summary.warning > 0
                             \/ summary.critical > 0
                             \/ summary.expired > 0
                IN  [title |-> "Secrets Audit Report", summary |-> summary,
                     rows |-> Entries(secrets, t),
                     section |-> shown,
                     actionRequired |->
                       IF shown
                       THEN Entries(SelectSeq(secrets,
                                              LAMBDA s : s.status # "healthy"), t)
                       ELSE <<>>])

\* severityOrder[status] ?? 9
SeverityOrder(s) ==
  CASE s.status = "expired" -> 0
    [] s.status = "critical" -> 1
    [] s.status = "warning" -> 2
    [] OTHER -> 9

\* generatePDFReport: it first writes the recomputed status into every record
\* of the list it was given, and sorts the filtered copies
generatePDFReport(secrets, t) ==
  LET recalculated == [i \in 1 .. Len(secrets) |-> WithStatus(secrets[i], t)]
      atRisk == SelectSeq(recalculated, LAMBDA s : s.status # "healthy")
      withExpiry == SelectSeq(recalculated, LAMBDA s : Truthy(s.expiresAt))
  IN  Rendered(recalculated,
               [summary |-> Summary(recalculated),
                rows |-> Entries(recalculated, t),
                atRisk |->
                  Entries(SortBy(atRisk,
                                 [i \in 1 .. Len(atRisk) |->
                                    SeverityOrder(atRisk[i])]), t),
                timeline |->
                  Entries(SortBy(withExpiry,
                                 [i \in 1 .. Len(withExpiry) |->
                                    ParseDate(withExpiry[i].expiresAt)[2]]), t)])

-----------------------------------------------------------------------------
(* The report command: the records that listSecrets() returns are handed to *)
(* the renderers, while time passes                                          *)

Renderers ==
  {"generateTextReport", "generateJsonReport", "generateMarkdownReport",
   "generatePDFReport"}

\* the stored records of the reports: healthy, expiring within 30 days,
\* expiring today, and past the rotation policy
ReportPayloads ==
  {[expiresAt |-> e, lastRotated |-> r] :
     <<e, r>> \in {<<Null, Date(0)>>, <<Date(MaxDay + 10), Date(0)>>,
                   <<Date(0), Date(0)>>,
                   <<Null, Date(-(DefaultRotationPolicy + 5))>>}}

ReportRecord(name, p) ==
  [name |-> name, provider |-> "unknown", createdAt |-> Date(0),
   expiresAt |-> p.expiresAt, lastRotated |-> p.lastRotated,
   rotationPolicy |-> Num(DefaultRotationPolicy), status |-> "healthy"]

\* the registries of up to MaxRecords + 1 records, named in the order of add
ReportConfigs ==
  {[tier |-> "free", secrets |-> [i \in 1 .. n |-> ReportRecord(i, ps[i])]] :
     n \in 0 .. MaxRecords + 1, ps \in [1 .. MaxRecords + 1 -> ReportPayloads]}

Called(fn, rendered) ==
  /\ out' = [fn |-> fn, val |-> rendered]
  /\ UNCHANGED <<config, now, last, secret, files, procs>>

\* const secrets = listSecrets()
ListForReport == Called("listSecrets", Rendered(listSecrets(config, now), Null))

\* a renderer called with the list the caller holds
RenderText ==
  /\ out.fn # "none"
  /\ Called("generateTextReport", generateTextReport(out.val.records, now))

RenderJson ==
  /\ out.fn # "none"
  /\ Called("generateJsonReport", generateJsonReport(out.val.records, now))

RenderMarkdown ==
  /\ out.fn # "none"
  /\ Called("generateMarkdownReport", generateMarkdownReport(out.val.records, now))

RenderPdf ==
  /\ out.fn # "none"
  /\ Called("generatePDFReport", generatePDFReport(out.val.records, now))

InitReport ==
  /\ config \in ReportConfigs
  /\ now = 0
  /\ last = NoOp
  /\ secret = NoSecret
  /\ out = NoCall
  /\ files = NoFiles
  /\ procs = NoProcs

NextReport ==
  \/ ListForReport
  \/ RenderText
  \/ RenderJson
  \/ RenderMarkdown
  \/ RenderPdf
  \/ Tick

SpecReport == InitReport /\ [][NextReport]_vars

-----------------------------------------------------------------------------
(* One stored record listed again and again while the days pass *)

\* the clock of this specification runs one day further than MaxDay
ClockEnd == (MaxDay + 2) * TicksPerDay - 1

\* stored records around the thresholds: the expiry date 0, 7 and 30 days off
\* or one day more, the last rotation at 3/4 of the policy, at the policy, or
\* past it
ClockPayloads ==
  [expiresAt : {Null, Date(0), Date(1), Date(7), Date(8), Date(30), Date(31)},
   lastRotated : {Date(0), Date(-68), Date(-DefaultRotationPolicy),
                  Date(-(DefaultRotationPolicy + 5))}]

ClockConfigs ==
  {[tier |-> "free", secrets |-> <<ReportRecord(1, p)>>] : p \in ClockPayloads}

\* what the caller has seen: the list at the instant at, and the status of the
\* record in the list before, seen at the instant beforeAt
Seen(records, at, before, beforeAt) ==
  [records |-> records, at |-> at, before |-> before, beforeAt |-> beforeAt]

\* listSecrets() called once more
ListAgain ==
  /\ out' = [fn |-> "listSecrets",
             val |-> IF out.fn = "none"
                     THEN Seen(listSecrets(config, now), now, "", now)
                     ELSE Seen(listSecrets(config, now), now,
                               out.val.records[1].status, out.val.at)]
  /\ UNCHANGED <<config, now, last, secret, files, procs>>

\* time passes
Advance ==
  /\ now < ClockEnd
  /\ now' = now + 1
  /\ UNCHANGED <<config, last, secret, out, files, procs>>

InitClock ==
  /\ config \in ClockConfigs
  /\ now = 0
  /\ last = NoOp
  /\ secret = NoSecret
  /\ out = NoCall
  /\ files = NoFiles
  /\ procs = NoProcs

NextClock ==
  \/ ListAgain
  \/ Advance

SpecClock == InitClock /\ [][NextClock]_vars

-----------------------------------------------------------------------------
(* Records that are added and then only rotated, and their messages *)

\* the payloads of add: dates and policies around every threshold
RotateAddInputs ==
  [name : {1}, provider : {""},
   createdAt : {Null, Date(-(DefaultRotationPolicy + 5))},
   expiresAt : {Null, Date(0), Date(6), Date(FarDay)},
   lastRotated : {Null, Date(1), Date(-68), Date(-DefaultRotationPolicy),
                  Date(-(DefaultRotationPolicy + 5))},
   rotationPolicy : {Null, Num(-1), Num(1), Num(DefaultRotationPolicy)}]
  \cup {NameOnly(name) : name \in Names \ {1}}

\* getStatusMessage(secret) of a stored record
Message(name) ==
  /\ HasName(config.secrets, name)
  /\ secret' = config.secrets[FindIndex(config.secrets, name)]
  /\ out' = [fn |-> "getStatusMessage", val |-> getStatusMessage(secret', now)]
  /\ UNCHANGED <<config, now, last, files, procs>>

NextRotate ==
  \/ \E data \in RotateAddInputs : Len(config.secrets) < MaxRecords /\ Add(data)
  \/ \E name \in Names : Rotate(name)
  \/ \E name \in Names : Message(name)
  \/ Tick

SpecRotate == Init /\ [][NextRotate]_vars

-----------------------------------------------------------------------------
(* Two processes that each run addSecret once on the same config file: each  *)
(* has its own _loadedConfigPath and its own copy of the registry            *)

Procs == {1, 2}

\* the name a process adds: none that the file holds already
RaceName(p) == MaxRecords + 1 + p

Idle == [pc |-> "idle", path |-> "none", config |-> EmptyConfig("free")]

\* const config = loadConfig() in addSecret
ProcLoad(p) ==
  /\ procs[p].pc = "idle"
  /\ \E loaded \in {loadConfig(files)} :
       /\ loaded.err = "none"
       /\ procs' = [procs EXCEPT ![p] = [pc |-> "loaded",
                                         path |-> loaded.fs.loaded,
                                         config |-> loaded.config]]
  /\ UNCHANGED <<config, now, last, secret, out, files>>

\* the rest of addSecret: the checks, config.secrets.push(secret) and
\* saveConfig(config), which writes the path this process has loaded
ProcSave(p) ==
  /\ procs[p].pc = "loaded"
  /\ \E o \in {addSecret(procs[p].config, NameOnly(RaceName(p)), now)} :
       /\ o.err = "none"
       /\ \E saved \in {saveConfigFile([files EXCEPT !.loaded = procs[p].path],
                                       o.config, "unset", "ok")} :
            files' = [saved.fs EXCEPT !.loaded = files.loaded]
       /\ procs' = [procs EXCEPT ![p] = [@ EXCEPT !.pc = "done",
                                                  !.config = o.config]]
  /\ UNCHANGED <<config, now, last, secret, out>>

InitRace ==
  /\ config = EmptyConfig("free")
  /\ now = 0
  /\ last = NoOp
  /\ secret = NoSecret
  /\ out = NoCall
  /\ \E cfg \in ReportConfigs, path \in {"local", "global"} :
       files = [NoFiles EXCEPT ![path] = File(cfg)]
  /\ procs = [p \in Procs |-> Idle]

NextRace ==
  \/ \E p \in Procs : ProcLoad(p)
  \/ \E p \in Procs : ProcSave(p)

SpecRace == InitRace /\ [][NextRace]_vars

-----------------------------------------------------------------------------
(* Claims about the status engine, checked under SpecStatus *)

\* the call of calculateStatus on the probed record has returned
StatusReturned == out.fn = "calculateStatus"

\* whole days from today's date to the date d (negative: d is in the past)
DaysFromToday(d) == d[2] - (now \div TicksPerDay)

AtMidnight == now % TicksPerDay = 0

\* the rule table of the status algorithm, over the engine's own ageDays and
\* daysUntilExpiry
RuleTable(s, t) ==
  LET days == daysUntilExpiry(s, t)
      age == calculateAge(s, t)
      hasExpiry == Truthy(s.expiresAt)
      hasRotation == Truthy(s.rotationPolicy) /\ Truthy(s.lastRotated)
  IN  IF hasExpiry /\ JsLt(ParseDate(s.expiresAt), Num(t)) THEN "expired"
      ELSE IF hasExpiry /\ JsLt(days, Num(7)) THEN "critical"
      ELSE IF hasExpiry /\ JsLt(days, Num(30)) THEN "warning"
      ELSE IF hasRotation /\ JsGt(age, s.rotationPolicy) THEN "critical"
      ELSE IF hasRotation /\ IsNum(age) /\ 4 * age[2] > 3 * s.rotationPolicy[2]
      THEN "warning"
      ELSE "healthy"

\* C1: for every record and instant, calculateStatus returns the result of the
\* first matching rule of the table (expired, critical and warning by expiry,
\* then critical and warning by rotation, else healthy), always one of the four
\* status values.
C1_FirstMatchingRule ==
  StatusReturned => out.val = RuleTable(secret, now) /\ out.val \in Statuses

\* C1's case: an expiry 30 or more days away falls through to the rotation
\* rules, which give critical
C1_Witness ==
  /\ StatusReturned
  /\ IsDate(secret.expiresAt) /\ DaysFromToday(secret.expiresAt) >= 30
  /\ JsGt(calculateAge(secret, now), secret.rotationPolicy)
  /\ out.val = "critical"

\* C3 as stated: an expiresAt 0 to 6 days after today's date is critical at
\* every instant of the day, and one exactly 7 days after is not critical.
C3_Original ==
  (StatusReturned /\ IsDate(secret.expiresAt)) =>
    /\ DaysFromToday(secret.expiresAt) \in 0 .. 6 => out.val = "critical"
    /\ DaysFromToday(secret.expiresAt) = 7 => out.val # "critical"

\* C3 amended: an expiresAt 1 to 6 days after today's date is critical at every
\* instant of the day; an expiresAt equal to today's date is critical only at
\* the instant of midnight and expired at every later instant of the day; one
\* exactly 7 days after today is not critical.
C3_CriticalWindow ==
  (StatusReturned /\ IsDate(secret.expiresAt)) =>
    /\ DaysFromToday(secret.expiresAt) \in 1 .. 6 => out.val = "critical"
    /\ DaysFromToday(secret.expiresAt) = 0 =>
         out.val = IF AtMidnight THEN "critical" ELSE "expired"
    /\ DaysFromToday(secret.expiresAt) = 7 => out.val # "critical"

C3_Witness ==
  /\ StatusReturned
  /\ IsDate(secret.expiresAt) /\ DaysFromToday(secret.expiresAt) = 6
  /\ ~AtMidnight
  /\ out.val = "critical"

\* C4: an expiresAt 7 to 29 days after today's date gives warning whatever
\* lastRotated and rotationPolicy are, also when the policy is exceeded.
C4_WarningWindow ==
  (StatusReturned /\ IsDate(secret.expiresAt)
     /\ DaysFromToday(secret.expiresAt) \in 7 .. 29) => out.val = "warning"

\* C4's case: the rotation policy is exceeded and the status is still warning
C4_Witness ==
  /\ StatusReturned
  /\ IsDate(secret.expiresAt) /\ DaysFromToday(secret.expiresAt) = 29
  /\ Truthy(secret.rotationPolicy) /\ Truthy(secret.lastRotated)
  /\ JsGt(calculateAge(secret, now), secret.rotationPolicy)
  /\ out.val = "warning"

\* the probed record has no expiresAt, a positive rotationPolicy p and a
\* lastRotated that is a date
RotationOnly ==
  /\ secret.expiresAt = Null
  /\ IsNum(secret.rotationPolicy) /\ secret.rotationPolicy[2] > 0
  /\ IsDate(secret.lastRotated)

\* whole days from the date lastRotated to today's date
DaysAgo(d) == -DaysFromToday(d)

\* C5 as stated: lastRotated p + 1 days before today gives critical, and
\* lastRotated exactly p days before today gives healthy.
C5_Original ==
  (StatusReturned /\ RotationOnly) =>
    /\ DaysAgo(secret.lastRotated) = secret.rotationPolicy[2] + 1 =>
         out.val = "critical"
    /\ DaysAgo(secret.lastRotated) = secret.rotationPolicy[2] =>
         out.val = "healthy"

\* C5 amended: lastRotated p + 1 days before today gives critical; lastRotated
\* exactly p days before today never gives healthy: it gives warning at the
\* instant of midnight and critical at every later instant of the day.
C5_RotationBoundary ==
  (StatusReturned /\ RotationOnly) =>
    /\ DaysAgo(secret.lastRotated) = secret.rotationPolicy[2] + 1 =>
         out.val = "critical"
    /\ DaysAgo(secret.lastRotated) = secret.rotationPolicy[2] =>
         out.val = IF AtMidnight THEN "warning" ELSE "critical"

C5_Witness ==
  /\ StatusReturned /\ RotationOnly
  /\ secret.rotationPolicy = Num(DefaultRotationPolicy)
  /\ DaysAgo(secret.lastRotated) = DefaultRotationPolicy
  /\ AtMidnight
  /\ out.val = "warning"

-----------------------------------------------------------------------------
(* Claims about the registry *)

\* the step is a call of add, of rotate or of list that returned
AddReturned == last'.op = "add" /\ last'.err = "none"
RotateReturned == last'.op = "rotate" /\ last'.err = "none"

\* the number of stored records named name
Count(secrets, name) ==
  Cardinality({i \in 1 .. Len(secrets) : secrets[i].name = name})

\* C2: after any sequence of add, remove, rotate and update on a registry that
\* starts empty, no two stored records share a name, and a free tier registry
\* never holds more than 10 records.  (Checked under Spec; update with a name
\* among its fields breaks it.)
C2_RegistryInvariant ==
  /\ \A i, j \in 1 .. Len(config.secrets) :
       i # j => config.secrets[i].name # config.secrets[j].name
  /\ config.tier = "free" => Len(config.secrets) <= 10

\* the payload of scenario A: createdAt today, no expiresAt, rotationPolicy 90
\* (given or defaulted), lastRotated left out
PayloadA(d) ==
  /\ d.createdAt = Today(now)
  /\ d.expiresAt = Null
  /\ d.lastRotated = Null
  /\ d.rotationPolicy \in {Null, Num(90)}

\* C6 as stated: add of a record with createdAt today, no expiresAt and
\* rotationPolicy 90 returns a healthy record whose age is 0, at every instant
\* of the day.
C6_Original ==
  [][AddReturned =>
       \A d \in AddInputs :
         (PayloadA(d) /\ Add(d)) =>
           /\ last'.ret.status = "healthy"
           /\ calculateAge(last'.ret, now) = Num(0)]_vars

\* C6 amended: add of a record with createdAt today, no expiresAt, no
\* lastRotated and rotationPolicy 90 returns a healthy record at every instant
\* of the day; its age (calculateAge) is 0 only at the instant of midnight and
\* 1 at every later instant of the day.
C6_FreshRecord ==
  [][AddReturned =>
       \A d \in AddInputs :
         (PayloadA(d) /\ Add(d)) =>
           /\ last'.ret.status = "healthy"
           /\ calculateAge(last'.ret, now) =
                IF AtMidnight THEN Num(0) ELSE Num(1)]_vars

\* C6's case: the record was added after midnight with today's createdAt
C6_Witness ==
  /\ last.op = "add" /\ last.err = "none"
  /\ ~AtMidnight
  /\ last.ret.createdAt = Today(now) /\ last.ret.lastRotated = Today(now)
  /\ last.ret.expiresAt = Null
  /\ last.ret.rotationPolicy = Num(90)
  /\ last.ret.status = "healthy"
  /\ calculateAge(last.ret, now) = Num(1)

\* the payload of scenario B: lastRotated 95 days before today, rotationPolicy
\* 90 (given or defaulted), no expiresAt
PayloadB(d) ==
  /\ IsDate(d.lastRotated) /\ DaysAgo(d.lastRotated) = 95
  /\ d.expiresAt = Null
  /\ d.rotationPolicy \in {Null, Num(90)}

\* C7 as stated: add of a record last rotated 95 days before today under a 90
\* day policy, with no expiresAt, returns status critical and the message is
\* exactly "Past rotation policy by 5 days".
C7_Original ==
  [][AddReturned =>
       \A d \in AddInputs :
         (PayloadB(d) /\ Add(d)) =>
           /\ last'.ret.status = "critical"
           /\ getStatusMessage(last'.ret, now) =
                Msg("Past rotation policy by {n} days", Num(5))]_vars

\* C7 amended: the status is critical and the message is "Past rotation policy
\* by {n} days" with n = calculateAge - 90, the days elapsed since lastRotated
\* rounded up, minus the policy: 5 only at the instant of midnight, and 6 at
\* every later instant of the day.
C7_PastPolicy ==
  [][AddReturned =>
       \A d \in AddInputs :
         (PayloadB(d) /\ Add(d)) =>
           /\ last'.ret.status = "critical"
           /\ getStatusMessage(last'.ret, now) =
                Msg("Past rotation policy by {n} days",
                    IF AtMidnight THEN Num(5) ELSE Num(6))
           /\ getStatusMessage(last'.ret, now)[2] =
                Minus(calculateAge(last'.ret, now), Num(90))]_vars

\* C7's case: the record was added after midnight, 95 days after its rotation
C7_Witness ==
  /\ last.op = "add" /\ last.err = "none"
  /\ ~AtMidnight
  /\ IsDate(last.ret.lastRotated) /\ DaysAgo(last.ret.lastRotated) = 95
  /\ last.ret.rotationPolicy = Num(90)
  /\ last.ret.status = "critical"
  /\ getStatusMessage(last.ret, now) =
       Msg("Past rotation policy by {n} days", Num(6))

\* the record has no expiry issue (no expiresAt, or one 30 or more days after
\* today) and an integer rotationPolicy of at least least
NoExpiryIssue(r, least) ==
  /\ \/ r.expiresAt = Null
     \/ IsDate(r.expiresAt) /\ DaysFromToday(r.expiresAt) >= 30
  /\ IsNum(r.rotationPolicy) /\ r.rotationPolicy[2] >= least

\* rotate(name) on such a record sets lastRotated to today and returns status
\* healthy, which is also the record's status in a list() taken at once
RotateGivesHealthy(least) ==
  RotateReturned =>
    \A n \in Names :
      (Rotate(n)
         /\ NoExpiryIssue(config.secrets[FindIndex(config.secrets, n)], least)) =>
        /\ last'.ret.lastRotated = Today(now)
        /\ last'.ret.status = "healthy"
        /\ config'.secrets[FindIndex(config.secrets, n)] = last'.ret
        /\ listSecrets(config', now)[FindIndex(config.secrets, n)].status
             = "healthy"

\* a list() taken later on the day of the rotation shows such a record healthy
ListShowsHealthy(least) ==
  (last'.op = "list" /\ List) =>
    \A i \in 1 .. Len(last'.ret) :
      (last'.ret[i].lastRotated = Today(now)
         /\ NoExpiryIssue(last'.ret[i], least)) =>
        last'.ret[i].status = "healthy"

\* C8 as stated: for every stored record with no expiresAt (or one 30 or more
\* days away) and any positive rotationPolicy, rotate sets lastRotated to today
\* and the status it returns, and the one list() shows, is healthy.
C8_Original == [][RotateGivesHealthy(1) /\ ListShowsHealthy(1)]_vars

\* C8 amended: the same for every integer rotationPolicy of 2 or more, the
\* list() being taken on the day of the rotation.  (Under a policy of 1 the
\* record is warning from the first instant after midnight: ageDays = 1 > 0.75.)
C8_RotateHealthy == [][RotateGivesHealthy(2) /\ ListShowsHealthy(2)]_vars

\* C8's case: a record under the smallest such policy, with an expiry far away,
\* rotated after midnight
C8_Witness ==
  /\ last.op = "rotate" /\ last.err = "none"
  /\ ~AtMidnight
  /\ last.ret.rotationPolicy = Num(2)
  /\ last.ret.expiresAt = Date(FarDay)
  /\ last.ret.lastRotated = Today(now)
  /\ last.ret.status = "healthy"

\* C9: add fails with the tier-limit error exactly when the tier is free and
\* the registry already holds 10 or more records; the registry then still holds
\* the same 10 records; under any other tier add never fails for the size.
\* (Checked under SpecTier.)
C9_TierLimit ==
  [][last'.op = "add" =>
       \A d \in TierAddInputs :
         (d.name = last'.name /\ Add(d)) =>
           /\ last'.err = "TierLimit"
                <=> (config.tier = "free" /\ Len(config.secrets) >= 10)
           /\ last'.err = "TierLimit" =>
                (config' = config /\ Len(config'.secrets) = 10)]_vars

\* C9's case: the 11th add under the free tier has failed
C9_Witness ==
  /\ last.op = "add" /\ last.err = "TierLimit"
  /\ config.tier = "free"
  /\ Len(config.secrets) = 10

-----------------------------------------------------------------------------
(* Claims about every operation of the registry (SpecOps) *)

\* C11: whenever add, remove, get, rotate or update ends with an error (missing
\* name, malformed date, duplicate name, name not found), the persisted
\* registry is exactly the one from before the call.
C11_ErrorsChangeNothing ==
  [][(last'.op \in {"add", "remove", "get", "rotate", "update"}
        /\ last'.err # "none") => config' = config]_vars

\* C11's case: add with a malformed date has failed on a registry that holds a
\* record
C11_Witness ==
  /\ last.op = "add" /\ last.err = "InvalidDate"
  /\ Len(config.secrets) = 1

\* C12: after any sequence of add, rotate and update, every createdAt,
\* expiresAt and lastRotated present in a stored record is a real calendar date
\* in YYYY-MM-DD form.  (update stores a malformed date as it is given.)
C12_StoredDatesAreDates ==
  \A i \in 1 .. Len(config.secrets) :
    /\ IsDate(config.secrets[i].createdAt)
    /\ IsDate(config.secrets[i].lastRotated)
    /\ config.secrets[i].expiresAt = Null \/ IsDate(config.secrets[i].expiresAt)

\* C13: after any sequence of operations the rotationPolicy of every stored
\* record is absent or a positive integer.  (add stores a negative policy as it
\* is given.)
C13_StoredPolicyIsPositive ==
  \A i \in 1 .. Len(config.secrets) :
    \/ config.secrets[i].rotationPolicy = Null
    \/ /\ IsNum(config.secrets[i].rotationPolicy)
       /\ config.secrets[i].rotationPolicy[2] > 0

-----------------------------------------------------------------------------
(* Claims about remove (SpecTier) *)

\* the records of seq other than the i-th, in their order
Without(seq, i) == SubSeq(seq, 1, i - 1) \o SubSeq(seq, i + 1, Len(seq))

\* C14: remove(name) on a name present in the registry deletes exactly that one
\* record, returns it, and leaves every other record unchanged and in the same
\* relative order; on an absent name it fails with the not-found error.
C14_RemoveExactlyOne ==
  [][(last'.op = "remove" /\ Remove(last'.name)) =>
       IF HasName(config.secrets, last'.name)
       THEN /\ last'.err = "none"
            /\ last'.ret.name = last'.name
            /\ \E i \in 1 .. Len(config.secrets) :
                 /\ config.secrets[i] = last'.ret
                 /\ config'.secrets = Without(config.secrets, i)
            /\ config'.tier = config.tier
       ELSE /\ last'.err = "NotFound"
            /\ config' = config]_vars

\* C14's case: a record was removed from between two others, which are still
\* stored next to each other
C14_Witness ==
  /\ last.op = "remove" /\ last.err = "none"
  /\ \E i \in 1 .. Len(config.secrets) - 1 :
       /\ config.secrets[i].name < last.name
       /\ last.name < config.secrets[i + 1].name

-----------------------------------------------------------------------------
(* Claims about the read operations and update (SpecOps) *)

\* the fields of a record other than its status
DataFields == {"name", "provider", "createdAt", "expiresAt", "lastRotated",
               "rotationPolicy"}

\* r is the stored record s with its status computed at the instant t
FreshCopy(r, s, t) ==
  /\ \A f \in DataFields : r[f] = s[f]
  /\ r.status = calculateStatus(r, t)

\* list() returns one record for each stored record, in the stored order
ListIsFresh ==
  (last'.op = "list" /\ List) =>
    /\ Len(last'.ret) = Len(config.secrets)
    /\ \A i \in 1 .. Len(config.secrets) :
         FreshCopy(last'.ret[i], config.secrets[i], now)

\* get(name) returns the stored record of that name
GetIsFresh ==
  (last'.op = "get" /\ last'.err = "none" /\ Get(last'.name)) =>
    /\ last'.ret.name = last'.name
    /\ \E i \in 1 .. Len(config.secrets) :
         FreshCopy(last'.ret, config.secrets[i], now)

\* the stored order is the order of the adds: add appends, and rotate and
\* update change a record in its place
StoredInOrderOfAdds ==
  /\ (last'.op = "add" /\ last'.err = "none"
        /\ \E d \in OpsAddInputs : d.name = last'.name /\ Add(d)) =>
       config'.secrets = Append(config.secrets, last'.ret)
  /\ (last'.op \in {"rotate", "update"} /\ last'.err = "none") =>
       /\ Len(config'.secrets) = Len(config.secrets)
       /\ \A i \in 1 .. Len(config.secrets) :
            config'.secrets[i].name = config.secrets[i].name

\* C15: list() returns every stored record exactly once, in the order the
\* records were added, and the status of each returned record (and of the one
\* returned by get(name)) is calculateStatus of its other fields at the current
\* instant, whatever status is persisted for it.
C15_ListAndGetAreFresh ==
  [][ListIsFresh /\ GetIsFresh /\ StoredInOrderOfAdds]_vars

\* C15's case: list() has returned two records, one of them with a status that
\* is not the persisted one
C15_Witness ==
  /\ last.op = "list"
  /\ Len(last.ret) = 2
  /\ last.ret[1].name # last.ret[2].name
  /\ \E i \in 1 .. 2 : last.ret[i].status # config.secrets[i].status

\* the operations that save the registry
Mutators == {"add", "remove", "rotate", "update"}

\* after a successful add, rotate or update the record returned is the one the
\* file holds, at the end of the registry or in the place of the record of that
\* name; after a successful remove the file holds one record less
SavedAfterMutation ==
  /\ (last'.op = "add" /\ last'.err = "none" /\ now' = now) =>
       /\ Len(config'.secrets) = Len(config.secrets) + 1
       /\ config'.secrets[Len(config'.secrets)] = last'.ret
  /\ (last'.op \in {"rotate", "update"} /\ last'.err = "none"
        /\ (Rotate(last'.name)
              \/ \E u \in OpsUpdateInputs : Update(last'.name, u))) =>
       config'.secrets[FindIndex(config.secrets, last'.name)] = last'.ret
  /\ (last'.op = "remove" /\ last'.err = "none" /\ Remove(last'.name)) =>
       /\ Len(config'.secrets) = Len(config.secrets) - 1
       /\ \A i \in 1 .. Len(config'.secrets) : config'.secrets[i] # last'.ret

\* C16: the persisted registry changes only through a successful add, remove,
\* rotate or update, and right after each of them a fresh load returns the
\* mutated registry; get, list and categorize never write the store, so the
\* persisted registry, persisted statuses included, is the same after them.
C16_OnlyMutatorsWrite ==
  [][/\ config' # config => (last'.op \in Mutators /\ last'.err = "none")
     /\ last'.op \in {"get", "list", "check"} => config' = config
     /\ SavedAfterMutation]_vars

\* C16's case: list() has returned while the file holds a status that is no
\* longer the status of the record
C16_Witness ==
  /\ last.op = "list"
  /\ \E i \in 1 .. Len(config.secrets) :
       /\ config.secrets[i].status # calculateStatus(config.secrets[i], now)
       /\ last.ret[i].status = calculateStatus(config.secrets[i], now)

\* the stored records with their status at the instant t, that is list()
Listed(t) ==
  [i \in 1 .. Len(config.secrets) |->
     [config.secrets[i] EXCEPT !.status = calculateStatus(config.secrets[i], t)]]

\* the records of seq whose status is status, in their order
OfStatus(seq, status) == SelectSeq(seq, LAMBDA r : r.status = status)

\* C17: categorize() places every record of list() in exactly one of the four
\* buckets healthy, warning, critical, expired, the one keyed by its freshly
\* computed status; the sizes of the buckets sum to the number of records, and
\* inside each bucket the records keep their relative insertion order.
C17_Categorize ==
  [][(last'.op = "check" /\ Check) =>
       /\ DOMAIN last'.ret = Statuses
       /\ \A status \in Statuses :
            last'.ret[status] = OfStatus(Listed(now), status)
       /\ Len(last'.ret["healthy"]) + Len(last'.ret["warning"])
            + Len(last'.ret["critical"]) + Len(last'.ret["expired"])
            = Len(config.secrets)]_vars

\* C17's case: two records share a bucket, in their stored order, and the
\* status persisted for the first is not the one of the bucket
C17_Witness ==
  /\ last.op = "check"
  /\ Len(config.secrets) = 2
  /\ \E status \in Statuses :
       /\ Len(last.ret[status]) = 2
       /\ last.ret[status][1].name = config.secrets[1].name
       /\ last.ret[status][2].name = config.secrets[2].name
       /\ config.secrets[1].name # config.secrets[2].name
       /\ config.secrets[1].status # status

\* C18: update(name, fields) on a present name sets every supplied field of
\* that record to the supplied value, leaves every field not supplied and every
\* other record unchanged, and returns the record with its status recomputed
\* from the merged fields (a status supplied in fields is not kept); on an
\* absent name it fails with the not-found error.
C18_UpdateMerges ==
  [][last'.op = "update" =>
       \A u \in OpsUpdateInputs :
         Update(last'.name, u) =>
           IF HasName(config.secrets, last'.name)
           THEN LET i == FindIndex(config.secrets, last'.name)
                IN  /\ last'.err = "none"
                    /\ last'.ret = config'.secrets[i]
                    /\ \A f \in DataFields :
                         last'.ret[f] = IF f \in DOMAIN u THEN u[f]
                                        ELSE config.secrets[i][f]
                    /\ last'.ret.status = calculateStatus(last'.ret, now)
                    /\ Len(config'.secrets) = Len(config.secrets)
                    /\ \A j \in 1 .. Len(config.secrets) :
                         j # i => config'.secrets[j] = config.secrets[j]
           ELSE /\ last'.err = "NotFound"
                /\ config' = config]_vars

\* C18's case: update was given a rotation policy and the status expired for
\* the second of two records, whose status is not expired
C18_Witness ==
  /\ last.op = "update" /\ last.err = "none"
  /\ Len(config.secrets) = 2
  /\ config.secrets[2] = last.ret
  /\ last.ret.rotationPolicy = Num(1)
  /\ last.ret.status # "expired"
  /\ config.secrets[1].rotationPolicy # Num(1)

-----------------------------------------------------------------------------
(* Claims about the messages and the days until expiry (SpecStatus) *)

\* a number n was computed and n < bound
Below(x, bound) == IsNum(x) /\ x[2] < bound

\* the message table: the first applicable row for the status at the instant t
MessageTable(s, t) ==
  LET status == calculateStatus(s, t)
      days == daysUntilExpiry(s, t)
      ageDays == calculateAge(s, t)
      policy == s.rotationPolicy
  IN  IF status = "expired"
      THEN Msg("Expired {n} days ago",
               Num(IF days[2] < 0 THEN -days[2] ELSE days[2]))
      ELSE IF status = "critical"
      THEN IF Below(days, 7)
           THEN Msg(IF days[2] = 1 THEN "Expires in {n} day"
                    ELSE "Expires in {n} days", days)
           ELSE IF IsNum(policy) /\ IsNum(ageDays) /\ ageDays[2] > policy[2]
           THEN Msg("Past rotation policy by {n} days",
                    Num(ageDays[2] - policy[2]))
           ELSE Msg("Critical", Null)
      ELSE IF status = "warning"
      THEN IF Below(days, 30)
           THEN Msg("Expires in {n} days", days)
           ELSE IF IsNum(policy) /\ IsNum(ageDays)
           THEN Msg("{n} days until rotation due", Num(policy[2] - ageDays[2]))
           ELSE Msg("Warning", Null)
      ELSE Msg("Healthy", Null)

\* C19: for every record and instant, getStatusMessage returns the message of
\* the first applicable row of the message table for the status computed at
\* that instant.
C19_MessageTable ==
  out.fn = "getStatusMessage" => out.val = MessageTable(secret, now)

\* C19's case: a critical record to which both the expiry row and the rotation
\* row apply got the message of the expiry row
C19_Witness ==
  /\ out.fn = "getStatusMessage"
  /\ calculateStatus(secret, now) = "critical"
  /\ Below(daysUntilExpiry(secret, now), 7)
  /\ IsNum(secret.rotationPolicy)
  /\ JsGt(calculateAge(secret, now), secret.rotationPolicy)
  /\ out.val = Msg("Expires in {n} days", daysUntilExpiry(secret, now))

\* daysUntilExpiry was called on a record whose expiresAt is a date
ExpiryComputed == out.fn = "daysUntilExpiry" /\ IsDate(secret.expiresAt)

\* the ticks from now to the midnight that starts the day of expiresAt
TicksToExpiry == secret.expiresAt[2] * TicksPerDay - now

\* n is ceil(ticks / 1 day): the least integer with ticks <= n days
IsCeilOfDays(n, ticks) ==
  /\ IsNum(n)
  /\ ticks <= n[2] * TicksPerDay
  /\ (n[2] - 1) * TicksPerDay < ticks

\* C20 as stated: daysUntilExpiry is ceil((expiresAt - now) / 1 day), and it is
\* a negative integer whenever expiresAt is before now, that is whenever the
\* status of the record is expired.
C20_Original ==
  ExpiryComputed =>
    /\ IsCeilOfDays(out.val, TicksToExpiry)
    /\ (TicksToExpiry < 0) <=> (calculateStatus(secret, now) = "expired")
    /\ TicksToExpiry < 0 => out.val[2] < 0

\* C20 amended: daysUntilExpiry is ceil((expiresAt - now) / 1 day); expiresAt
\* is before now exactly when the status is expired, and then daysUntilExpiry
\* is zero or negative: it is 0 for the rest of the day of expiresAt (less than
\* one day past its midnight) and negative only once a whole day has passed.
C20_DaysUntilExpiry ==
  ExpiryComputed =>
    /\ IsCeilOfDays(out.val, TicksToExpiry)
    /\ (TicksToExpiry < 0) <=> (calculateStatus(secret, now) = "expired")
    /\ TicksToExpiry < 0 =>
         /\ out.val[2] <= 0
         /\ (out.val[2] < 0) <=> (-TicksToExpiry >= TicksPerDay)

\* C20's case: the record expired at the midnight of today, it is later in the
\* day, and daysUntilExpiry is 0
C20_Witness ==
  /\ ExpiryComputed
  /\ TicksToExpiry < 0
  /\ calculateStatus(secret, now) = "expired"
  /\ out.val = Num(0)

-----------------------------------------------------------------------------
(* Claims about the check command (SpecOps) *)

\* some stored record has this status now
SomeIs(status) ==
  \E i \in 1 .. Len(config.secrets) :
    calculateStatus(config.secrets[i], now) = status

\* the levels of --fail-on: warning < critical < expired
Level(status) ==
  CASE status = "warning" -> 1
    [] status = "critical" -> 2
    [] status = "expired" -> 3
    [] OTHER -> 0

-----------------------------------------------------------------------------
(* Claims about the config files and the MCP server (SpecFiles) *)

\* C22: every call of an MCP tool, for every tool name and registry state,
\* returns a response in one uniform envelope: a JSON body with success: true
\* when it succeeded, and a JSON body with error and code, marked isError, when
\* it failed.  (The answer to an unknown tool name is plain text without a
\* code, and the body of get_schema has no success member.)
C22_UniformEnvelope ==
  last.op \in McpTools \cup {"no_such_tool"} =>
    /\ last.ret.body = "json"
    /\ \/ last.ret.success /\ ~last.ret.isError /\ ~last.ret.error
       \/ ~last.ret.success /\ last.ret.isError /\ last.ret.error
            /\ last.ret.code # ""

\* the operations on the files that change the registry, and those that read it
FileMutators == {"add_secret", "remove_secret", "rotate_secret", "updateSecret"}
FileReaders == {"list_secrets", "check_secrets"}

OtherPath(path) == IF path = "local" THEN "global" ELSE "local"

\* the record of that name in the registry of a file
Stored(file, name) == file.content.secrets[FindIndex(file.content.secrets, name)]

\* the registry of the file the operation had to load is the one that shows
\* the change of a successful add_secret, remove_secret, rotate_secret or update
ChangedIn(file, before) ==
  /\ file.state = "ok"
  /\ last'.op = "add_secret" =>
       /\ ~HasName(before.content.secrets, last'.name)
       /\ Len(file.content.secrets) = Len(before.content.secrets) + 1
       /\ file.content.secrets[Len(file.content.secrets)].name = last'.name
  /\ last'.op = "remove_secret" =>
       /\ HasName(before.content.secrets, last'.name)
       /\ ~HasName(file.content.secrets, last'.name)
  /\ last'.op = "rotate_secret" =>
       /\ HasName(before.content.secrets, last'.name)
       /\ Stored(file, last'.name) = last'.ret.data
  /\ last'.op = "updateSecret" =>
       /\ HasName(before.content.secrets, last'.name)
       /\ Stored(file, last'.name) = last'.ret

\* C26: every registry operation reads the local config file when it exists
\* and the global one otherwise, and every mutating operation that succeeds
\* writes the registry back to that same file and leaves the other file as it
\* was: when only the global file exists, add, remove, rotate and update change
\* the global file and never create a local one.
C26_WritesBackWhereLoaded ==
  [][(last'.op \in FileMutators \cup FileReaders /\ last'.err = "none") =>
       LET path == getConfigPath(files)
       IN  /\ path = "global" <=> files.local.state = "absent"
           /\ files[path].state = "ok"
           /\ files'[OtherPath(path)] = files[OtherPath(path)]
           /\ last'.op \in FileMutators => ChangedIn(files'[path], files[path])
           /\ last'.op \in FileReaders =>
                /\ files'[path] = files[path]
                /\ last'.ret.data =
                     IF last'.op = "list_secrets"
                     THEN listSecrets(files[path].content, now)
                     ELSE checkSecrets(files[path].content, now)]_vars

\* only the global file exists, and an operation has just changed it
C26_Witness ==
  /\ last.op \in FileMutators
  /\ last.err = "none"
  /\ files.local.state = "absent"
  /\ files.global.state = "ok"
  /\ files.global.content.secrets # <<>>

\* C27: if the write of add, remove, rotate or update fails, the operation
\* reports an error and both config files stay as they were before the
\* operation.  (A write that fails after the file was opened leaves the file
\* truncated: the registry of before is lost.)
C27_FailedWriteKeepsRegistry ==
  [][(last'.op \in FileMutators /\ last'.err # "none") =>
       /\ files'.local = files.local
       /\ files'.global = files.global]_vars

-----------------------------------------------------------------------------
(* Claims about malformed dates in stored records (SpecStatus) *)

\* the record with every unparseable date field taken away
DatesAbsent(s) ==
  [s EXCEPT !.expiresAt = IF @ = BadDate THEN Null ELSE @,
            !.lastRotated = IF @ = BadDate THEN Null ELSE @,
            !.createdAt = IF @ = BadDate THEN Null ELSE @]

\* C25: for a stored record with an unparseable date in expiresAt, lastRotated
\* or createdAt the status engine does not fail, and the status, the age in
\* days and the days until expiry it returns are those of the same record
\* without that field.  (The age and the days until expiry are NaN instead.)
C25_UnparseableIsAbsent ==
  /\ out.fn = "calculateStatus" =>
       out.val = calculateStatus(DatesAbsent(secret), now)
  /\ out.fn = "calculateAge" =>
       out.val = calculateAge(DatesAbsent(secret), now)
  /\ out.fn = "daysUntilExpiry" =>
       out.val = daysUntilExpiry(DatesAbsent(secret), now)

-----------------------------------------------------------------------------
(* Claims about the report renderers (SpecReport) *)

\* C23: every report renderer (text, JSON, Markdown and PDF) leaves the list
\* it is given unchanged: after the call every field of every record, the
\* status included, and the order of the list are as before the call.  (The
\* PDF renderer writes the recomputed status into the records.)
C23_RenderersLeaveInput ==
  [][out'.fn \in Renderers => out'.val.records = out.val.records]_vars

\* the place of the record of that name in the list
PlaceOf(records, name) == CHOOSE i \in 1 .. Len(records) : records[i].name = name

\* C24: the Markdown report has an "Action Required" section if and only if
\* at least one record of its input has a status other than healthy, and the
\* section lists exactly the records that are not healthy, each once, in the
\* order of the input.
C24_ActionRequired ==
  out.fn = "generateMarkdownReport" =>
    LET records == out.val.records
        listed == out.val.report.actionRequired
    IN  /\ out.val.report.section <=>
             \E i \in 1 .. Len(records) : records[i].status # "healthy"
        /\ ~out.val.report.section => listed = <<>>
        /\ \A i \in 1 .. Len(records) :
             Cardinality({k \in 1 .. Len(listed) : listed[k].name = records[i].name})
               = IF records[i].status # "healthy" THEN 1 ELSE 0
        /\ \A k \in 1 .. Len(listed) :
             /\ \E i \in 1 .. Len(records) : records[i].name = listed[k].name
             /\ listed[k].status = records[PlaceOf(records, listed[k].name)].status
        /\ \A k \in 1 .. Len(listed), j \in 1 .. Len(listed) :
             k < j => PlaceOf(records, listed[k].name)
                        < PlaceOf(records, listed[j].name)

\* a Markdown report of a healthy record between two records that are not
C24_Witness ==
  /\ out.fn = "generateMarkdownReport"
  /\ out.val.report.section
  /\ Len(out.val.report.actionRequired) = MaxRecords
  /\ Len(out.val.records) = MaxRecords + 1
  /\ out.val.records[MaxRecords].status = "healthy"

-----------------------------------------------------------------------------
(* Claims about the status of a record over time (SpecClock) *)

\* healthy < warning < critical < expired
Severity(status) ==
  CASE status = "healthy" -> 0
    [] status = "warning" -> 1
    [] status = "critical" -> 2
    [] status = "expired" -> 3

SeenTwice == out.fn = "listSecrets" /\ out.val.before # ""

\* C28 as stated: for a stored record that is not mutated the severity of the
\* status never decreases as time advances.
C28_Original ==
  SeenTwice =>
    Severity(out.val.records[1].status) >= Severity(out.val.before)

\* the record was past its rotation policy while its expiry date was 30 days
\* or more away, and the expiry date is now between 7 and 29 days away
OverdueBeforeExpiryWindow ==
  LET s == config.secrets[1]
  IN  /\ Truthy(s.expiresAt)
      /\ JsGt(calculateAge(s, out.val.beforeAt), s.rotationPolicy)
      /\ ~JsLt(daysUntilExpiry(s, out.val.beforeAt), Num(30))
      /\ JsLt(daysUntilExpiry(s, out.val.at), Num(30))
      /\ ~JsLt(daysUntilExpiry(s, out.val.at), Num(7))

\* C28: for a stored record that is not mutated the severity of the status
\* never decreases as time advances, except in one case: a record that is
\* critical because it is past its rotation policy, with an expiry date 30
\* days or more away, becomes warning when the expiry date comes within 30
\* days.
C28_SeverityOverTime ==
  SeenTwice =>
    \/ Severity(out.val.records[1].status) >= Severity(out.val.before)
    \/ /\ out.val.before = "critical"
       /\ out.val.records[1].status = "warning"
       /\ OverdueBeforeExpiryWindow

\* a record without expiry date seen as warning and later as critical
C28_Witness ==
  /\ SeenTwice
  /\ config.secrets[1].expiresAt = Null
  /\ out.val.before = "warning"
  /\ out.val.records[1].status = "critical"
  /\ out.val.beforeAt < out.val.at

-----------------------------------------------------------------------------
(* Claims about the messages of added and rotated records (SpecRotate) *)

\* C29: for every record created by add and then changed only by rotate, at
\* every instant the status message is never the bare "Critical", "Warning" or
\* "Unknown", and the number in "{n} days until rotation due" is never
\* negative.
C29_NoBareMessage ==
  out.fn = "getStatusMessage" =>
    /\ out.val[1] \notin {"Critical", "Warning", "Unknown"}
    /\ out.val[1] = "{n} days until rotation due" =>
         IsNum(out.val[2]) /\ out.val[2][2] >= 0

\* the message of a record that add created and rotate changed, and that is
\* past three quarters of its policy again
C29_Witness ==
  /\ out.fn = "getStatusMessage"
  /\ last.op = "rotate"
  /\ last.err = "none"
  /\ secret.lastRotated = Today(now)
  /\ out.val[1] = "{n} days until rotation due"

-----------------------------------------------------------------------------
(* Claims about two processes adding at the same time (SpecRace) *)

AllDone == \A p \in Procs : procs[p].pc = "done"

\* the registry in the config file
Persisted == files[getConfigPath(files)].content

\* C30 as stated: when two processes each run one add that succeeds, with
\* different names, on the same config file, the persisted registry afterwards
\* contains both new records, for every interleaving of the load and save steps.
C30_Original ==
  AllDone => \A p \in Procs : HasName(Persisted.secrets, RaceName(p))

\* C30: when two processes each run one add that succeeds, with different
\* names, on the same config file, the persisted registry afterwards is the
\* registry of the process that saved last: it holds both new records when
\* one process loaded after the other had saved, and otherwise it holds the
\* record of the last process only.
C30_LastSaveWins ==
  AllDone =>
    /\ \E p \in Procs : Persisted = procs[p].config
    /\ (\A p \in Procs : HasName(Persisted.secrets, RaceName(p)))
         <=> \E p \in Procs : \E q \in Procs \ {p} :
               HasName(procs[p].config.secrets, RaceName(q))
    /\ \E p \in Procs : HasName(Persisted.secrets, RaceName(p))

\* both processes loaded before either saved: one record is lost
C30_Witness ==
  /\ AllDone
  /\ \E p \in Procs : ~HasName(Persisted.secrets, RaceName(p))
  /\ \A p \in Procs : HasName(procs[p].config.secrets, RaceName(p))

====
